---- MODULE Spec2Model ----
(***************************************************************************)
(* Cloud connection options of polars-io (cloud/options.rs): typing of     *)
(* untyped override keys, the merge of overrides, environment and          *)
(* credential files in CloudOptions::build_aws, and the discovery of the   *)
(* bucket region through the process-wide BUCKET_REGION cache and a        *)
(* budgeted HEAD probe.                                                     *)
(*                                                                         *)
(* Strings stand for Rust strings, None for Option::None.  A bucket is a   *)
(* natural number (bucket i of "s3://bucket-i/key"); url 0 is a URL from   *)
(* which CloudLocation::new cannot take a bucket.                          *)
(***************************************************************************)
EXTENDS Integers, Sequences, FiniteSets, TLC

VARIABLES
    pc,           \* pc[p]: position of build call p inside build_aws
    opts,         \* opts[p]: the CloudOptions the call runs on (self)
    url,          \* url[p]: the url argument
    inp,          \* inp[p]: environment and credential files the call saw
    builder,      \* builder[p]: the AmazonS3Builder of the call
    opened,       \* opened[p]: credential files the call opened
    response,     \* response[p]: what the probe of the call ended in
    source,       \* source[p]: where the region of the call came from
    trace,        \* trace[p]: what the call has done so far
    result,       \* result[p]: what the caller received
    cache,        \* BUCKET_REGION: <<bucket, region>> pairs, least recent first
    lock,         \* holder of the BUCKET_REGION mutex, or Free
    permits,      \* free units of the concurrency budget
    held,         \* held[p]: budget units call p holds
    downloads,    \* unrelated budgeted downloads in flight
    lastInsert,   \* lastInsert[b]: region of the last completed insert for b
    tin,          \* arguments of a from_untyped_config call
    tout          \* its result

vars == <<pc, opts, url, inp, builder, opened, response, source, trace, result,
          cache, lock, permits, held, downloads, lastInsert, tin, tout>>

callVars == <<pc, opts, url, inp, builder, opened, response, source, trace, result>>

-----------------------------------------------------------------------------
(* Bounds of the model *)

\* Longest override list drawn as an input.
MaxOverrides == 2

\* Size of the process-wide concurrency budget.
Budget == 2

\* Largest retry count given to with_max_retries.
MaxRetries == 3

(* Program constants *)

\* FastFixedCache::new(32)
CacheCapacity == 32

\* with_concurrency_budget(1, ..)
ProbeBudget == 1

\* CloudOptions::default().max_retries
DefaultMaxRetries == 2

\* Seconds of get_retry_config's retry_timeout.
RetryTimeoutSecs == 10

-----------------------------------------------------------------------------
(* Values *)

None == "None"

\* Option<Configs<T>>: Some(configs) and None.
Some(configs) == [some |-> TRUE, list |-> configs]

NoConfigs == [some |-> FALSE, list |-> <<>>]

Free == "free"

Procs == {"b1", "b2"}

\* AmazonS3ConfigKey, the keys build_aws and its callers use.
Keys == {"Region", "DefaultRegion", "Endpoint", "AccessKeyId", "SecretAccessKey"}

\* The fixed region set when an endpoint is configured: "us-east-1".
FallbackRegion == "us-east-1"

\* Regions a bucket may report in x-amz-bucket-region.
Regions == {"eu-west-1", "us-west-2"}

BadUrl == 0

-----------------------------------------------------------------------------
(* Config key typing *)

\* <T as FromStr>::from_str for the key type of a provider: the typed key of
\* a string key, None for a string that names no key (the Err of from_str).
KeyFromStr(provider, s) ==
    CASE provider = "aws" /\ s \in {"region", "aws_region"} -> "Region"
      [] provider = "aws" /\ s \in {"default_region", "aws_default_region"}
             -> "DefaultRegion"
      [] provider = "aws" /\ s \in {"endpoint", "aws_endpoint", "endpoint_url"}
             -> "Endpoint"
      [] provider = "aws" /\ s \in {"access_key_id", "aws_access_key_id"}
             -> "AccessKeyId"
      [] provider = "aws" /\ s \in {"secret_access_key", "aws_secret_access_key"}
             -> "SecretAccessKey"
      [] provider = "azure" /\ s \in {"account_name", "azure_storage_account_name"}
             -> "AccountName"
      [] provider = "azure" /\ s \in {"access_key", "azure_storage_access_key"}
             -> "AccessKey"
      [] provider = "gcp" /\ s \in {"service_account", "google_service_account"}
             -> "ServiceAccount"
      [] provider = "gcp" /\ s \in {"bucket", "bucket_name", "google_bucket"}
             -> "Bucket"
      [] OTHER -> None

\* Ok(configs) and Err("unknown configuration key: {key}") of PolarsResult.
Ok(configs) == [ok |-> TRUE, configs |-> configs, err |-> None]

Err(key) == [ok |-> FALSE, configs |-> <<>>, err |-> key]

\* A plausible slip: unknown keys are dropped instead of failing the call.
RECURSIVE CollectTyped_skip(_, _, _)
CollectTyped_skip(provider, config, acc) ==
    IF config = <<>> THEN Ok(acc)
    ELSE LET key == Head(config)[1]
             val == Head(config)[2]
             typed == KeyFromStr(provider, key)
         IN  IF typed = None
             THEN CollectTyped_skip(provider, Tail(config), acc)
             ELSE CollectTyped_skip(provider, Tail(config),
                                    Append(acc, <<typed, val>>))

\* .map(..).collect::<PolarsResult<Configs<T>>>(): the pairs are typed in
\* order; the first Err ends the iteration and is the result.
RECURSIVE CollectTyped(_, _, _)
CollectTyped(provider, config, acc) ==
    IF config = <<>> THEN Ok(acc)
    ELSE LET key == Head(config)[1]
             val == Head(config)[2]
             typed == KeyFromStr(provider, key)
         IN  IF typed = None
             THEN Err(key)
             ELSE CollectTyped(provider, Tail(config), Append(acc, <<typed, val>>))

parsed_untyped_config(provider, config) == CollectTyped(provider, config, <<>>)

-----------------------------------------------------------------------------
(* AmazonS3Builder *)

\* A builder holds one optional value per key.
EmptyBuilder == [k \in Keys |-> None]

get_config_value(b, key) == b[key]

with_config(b, key, value) == [b EXCEPT ![key] = value]

\* AmazonS3Builder::from_env(): the keys the environment sets.
from_env(env) == [k \in Keys |-> env[k]]

\* A plausible slip: an override is applied only to a key that is still unset.
RECURSIVE ApplyOptions_keepFirst(_, _)
ApplyOptions_keepFirst(b, options) ==
    IF options = <<>> THEN b
    ELSE LET key == Head(options)[1]
             value == Head(options)[2]
         IN  ApplyOptions_keepFirst(
                 IF b[key] = None THEN with_config(b, key, value) ELSE b,
                 Tail(options))

\* for (key, value) in options.iter() { builder = builder.with_config(..) }
RECURSIVE ApplyOptions(_, _)
ApplyOptions(b, options) ==
    IF options = <<>> THEN b
    ELSE ApplyOptions(with_config(b, Head(options)[1], Head(options)[2]),
                      Tail(options))

-----------------------------------------------------------------------------
(* Credential files *)

\* A file that cannot be opened, read or decoded as UTF-8.
Unreadable == [readable |-> FALSE, lines |-> <<>>]

\* A file with the given lines, line <<name, value>> being "name = value\n".
File(lines) == [readable |-> TRUE, lines |-> lines]

ConfigPath == "~/.aws/config"

CredentialsPath == "~/.aws/credentials"

\* The items of the two read_config calls of build_aws.
ConfigItems == << <<ConfigPath, << <<"region = (.*)\n", "Region">> >> >> >>

CredentialsItems ==
    << <<CredentialsPath,
         << <<"aws_access_key_id = (.*)\n", "AccessKeyId">>,
            <<"aws_secret_access_key = (.*)\n", "SecretAccessKey">> >> >> >>

\* The literal text a pattern starts with, before " = (.*)\n".
PatternName(pattern) ==
    CASE pattern = "region = (.*)\n" -> "region"
      [] pattern = "aws_access_key_id = (.*)\n" -> "aws_access_key_id"
      [] pattern = "aws_secret_access_key = (.*)\n" -> "aws_secret_access_key"

\* The regex is not anchored: it matches inside a line whose name ends with
\* the pattern's name.
Occurs(name, lineName) ==
    \/ lineName = name
    \/ name = "region" /\ lineName = "sso_region"

\* reg.captures(content)?.get(1)?.as_str(): the value of the leftmost match,
\* None without a match.
RECURSIVE Captures(_, _)
Captures(pattern, content) ==
    IF content = <<>> THEN None
    ELSE IF Occurs(PatternName(pattern), Head(content)[1])
         THEN Head(content)[2]
         ELSE Captures(pattern, Tail(content))

\* A plausible slip: a pattern without a match is passed over and the later
\* rules are still applied.
RECURSIVE ApplyRules_continues(_, _, _)
ApplyRules_continues(b, rules, content) ==
    IF rules = <<>> THEN [builder |-> b, ok |-> TRUE]
    ELSE LET key == Head(rules)[2]
             cap == Captures(Head(rules)[1], content)
         IN  IF get_config_value(b, key) # None \/ cap = None
             THEN ApplyRules_continues(b, Tail(rules), content)
             ELSE ApplyRules_continues(with_config(b, key, cap), Tail(rules),
                                       content)

\* The rule loop of read_config: a rule whose key is unset takes the capture;
\* a pattern without a match returns None from read_config, the keys filled
\* so far staying filled.
RECURSIVE ApplyRules(_, _, _)
ApplyRules(b, rules, content) ==
    IF rules = <<>> THEN [builder |-> b, ok |-> TRUE]
    ELSE LET pattern == Head(rules)[1]
             key == Head(rules)[2]
         IN  IF get_config_value(b, key) # None
             THEN ApplyRules(b, Tail(rules), content)
             ELSE LET cap == Captures(pattern, content)
                  IN  IF cap = None
                      THEN [builder |-> b, ok |-> FALSE]
                      ELSE ApplyRules(with_config(b, key, cap), Tail(rules), content)

\* A plausible slip: the file is read whatever is set.
AllSet_never(b, rules) == FALSE

\* Lines 187-192: every key of the file's rules is set.
AllSet(b, rules) ==
    \A i \in 1..Len(rules) : get_config_value(b, rules[i][2]) # None

\* read_config: the builder it leaves, the files it opened and whether it
\* returned Some(()).
RECURSIVE ReadItems(_, _, _, _)
ReadItems(b, items, fs, open) ==
    IF items = <<>> THEN [builder |-> b, opened |-> open, ok |-> TRUE]
    ELSE LET path == Head(items)[1]
             rules == Head(items)[2]
         IN  IF AllSet(b, rules)
             THEN ReadItems(b, Tail(items), fs, open)
             ELSE IF ~fs[path].readable
                  THEN [builder |-> b, opened |-> open \cup {path}, ok |-> FALSE]
                  ELSE LET r == ApplyRules(b, rules, fs[path].lines)
                       IN  IF r.ok
                           THEN ReadItems(r.builder, Tail(items), fs,
                                          open \cup {path})
                           ELSE [builder |-> r.builder,
                                 opened |-> open \cup {path}, ok |-> FALSE]

read_config(b, items, fs) == ReadItems(b, items, fs, {})

-----------------------------------------------------------------------------
(* The region cache: FastFixedCache<bucket, region> *)

InCache(c, bucket) == \E i \in 1..Len(c) : c[i][1] = bucket

CacheIndex(c, bucket) == CHOOSE i \in 1..Len(c) : c[i][1] = bucket

Without(c, bucket) == SelectSeq(c, LAMBDA e : e[1] # bucket)

\* get(bucket).cloned()
CacheGet(c, bucket) ==
    IF InCache(c, bucket) THEN c[CacheIndex(c, bucket)][2] ELSE None

\* A lookup makes the entry the most recently used one.
CacheTouch(c, bucket) ==
    IF InCache(c, bucket)
    THEN Append(Without(c, bucket), c[CacheIndex(c, bucket)])
    ELSE c

\* A cache that never evicts.
CachePut_unbounded(c, bucket, region) ==
    Append(Without(c, bucket), <<bucket, region>>)

\* insert(bucket, region): the entry of the bucket is replaced; a new bucket
\* in a full cache takes the place of the least recently used entry.
CachePut(c, bucket, region) ==
    IF InCache(c, bucket) THEN Append(Without(c, bucket), <<bucket, region>>)
    ELSE IF Len(c) < CacheCapacity THEN Append(c, <<bucket, region>>)
    ELSE Append(Tail(c), <<bucket, region>>)

-----------------------------------------------------------------------------
(* One call of build_aws *)

\* No retry configuration: there is no client.
NoRetry == [backoff |-> None, max_retries |-> 0, retry_timeout |-> 0]

\* A plausible slip: the client is built with the default count.
get_retry_config_default(max_retries) ==
    [backoff |-> "default", max_retries |-> DefaultMaxRetries,
     retry_timeout |-> RetryTimeoutSecs]

\* get_retry_config
get_retry_config(max_retries) ==
    [backoff |-> "default", max_retries |-> max_retries,
     retry_timeout |-> RetryTimeoutSecs]

NoResult ==
    [kind |-> "none", config |-> EmptyBuilder, cause |-> None, retry |-> NoRetry]

\* Ok(store): the client, built from the builder's final configuration and
\* the retry configuration.
Client(b, retry) ==
    [kind |-> "client", config |-> b, cause |-> None, retry |-> retry]

\* Err(..) of build_aws, with the place it comes from.
Error(cause) ==
    [kind |-> "error", config |-> EmptyBuilder, cause |-> cause,
     retry |-> NoRetry]

EmptyEnv == [k \in Keys |-> None]

NoFiles == [f \in {ConfigPath, CredentialsPath} |-> Unreadable]

\* Nothing done yet; found is the `region` the lookup returned.
IdleTrace == [looked |-> FALSE, found |-> None, warned |-> FALSE,
              probed |-> FALSE, inserted |-> FALSE]

\* CloudOptions::default(): no provider list is set.
DefaultOptions ==
    [max_retries |-> DefaultMaxRetries, aws |-> NoConfigs, azure |-> NoConfigs,
     gcp |-> NoConfigs]

\* self.aws = Some(configs)
with_aws(options, configs) == [options EXCEPT !.aws = Some(configs)]

\* self.azure = Some(configs)
with_azure(options, configs) == [options EXCEPT !.azure = Some(configs)]

\* self.gcp = Some(configs)
with_gcp_asAws(options, configs) == [options EXCEPT !.aws = Some(configs)]

with_gcp(options, configs) == [options EXCEPT !.gcp = Some(configs)]

\* self.max_retries = max_retries
with_max_retries(options, max_retries) ==
    [options EXCEPT !.max_retries = max_retries]

\* The options of a call: with_max_retries is called on them with retries[1],
\* or not at all when retries is empty.
WithRetries(options, retries) ==
    IF retries = <<>> THEN options ELSE with_max_retries(options, retries[1])

IdleOpts == DefaultOptions

IdleInp ==
    [env |-> EmptyEnv, fs |-> NoFiles, retries |-> <<>>,
     before |-> DefaultOptions]

\* What a probe ends in: a transport error, a response without the
\* x-amz-bucket-region header, a header that is not UTF-8, or a region.
ProbeOutcomes == {"transport_error", "no_header", "bad_utf8"} \cup Regions

\* Lines 240-267: the builder after from_env, the overrides of self.aws and
\* the two read_config calls, with the files the calls opened.
Merged_failStops(aws, env, fs) ==
    LET b0 == from_env(env)
        b1 == IF aws.some THEN ApplyOptions(b0, aws.list) ELSE b0
        r1 == read_config(b1, ConfigItems, fs)
        r2 == read_config(r1.builder, CredentialsItems, fs)
    IN  IF r1.ok
        THEN [builder |-> r2.builder, opened |-> r1.opened \cup r2.opened]
        ELSE [builder |-> r1.builder, opened |-> r1.opened]

Merged(aws, env, fs) ==
    LET b0 == from_env(env)
        b1 == IF aws.some THEN ApplyOptions(b0, aws.list) ELSE b0
        r1 == read_config(b1, ConfigItems, fs)
        r2 == read_config(r1.builder, CredentialsItems, fs)
    IN  [builder |-> r2.builder, opened |-> r1.opened \cup r2.opened]

\* A plausible slip: only DefaultRegion is looked at.
NeedsRegion_defaultOnly(b) == get_config_value(b, "DefaultRegion") = None

\* Lines 269-274: neither DefaultRegion nor Region is set.
NeedsRegion(b) ==
    /\ get_config_value(b, "DefaultRegion") = None
    /\ get_config_value(b, "Region") = None

\* build_aws up to the first use of shared state: the merge, and for a call
\* that needs a region the bucket of the url (CloudLocation::new(url)?).
BuildAws(p, call) ==
    /\ pc[p] = "idle"
    /\ LET m == Merged(call.aws, call.env, call.fs)
           need == NeedsRegion(m.builder)
       IN  /\ builder' = [builder EXCEPT ![p] = m.builder]
           /\ opened' = [opened EXCEPT ![p] = m.opened]
           /\ pc' = [pc EXCEPT ![p] =
                        IF ~need THEN "build"
                        ELSE IF call.url = BadUrl THEN "done" ELSE "lookup"]
           /\ result' = [result EXCEPT ![p] =
                            IF need /\ call.url = BadUrl
                            THEN Error("location") ELSE NoResult]
    /\ LET options == IF call.aws.some
                       THEN with_aws(DefaultOptions, call.aws.list)
                       ELSE DefaultOptions
       IN  /\ opts' = [opts EXCEPT ![p] = WithRetries(options, call.retries)]
           /\ inp' = [inp EXCEPT ![p] =
                          [env |-> call.env, fs |-> call.fs,
                           retries |-> call.retries, before |-> options]]
    /\ url' = [url EXCEPT ![p] = call.url]
    /\ UNCHANGED <<response, source, trace, cache, lock, permits, held,
                   downloads, lastInsert, tin, tout>>

\* BUCKET_REGION.lock().unwrap() of the lookup block.
LockForLookup(p) ==
    /\ pc[p] = "lookup"
    /\ lock = Free
    /\ lock' = p
    /\ pc' = [pc EXCEPT ![p] = "get"]
    /\ UNCHANGED <<opts, url, inp, builder, opened, response, source, trace,
                   result, cache, permits, held, downloads, lastInsert, tin, tout>>

\* A plausible slip: the guard of the lookup lives on after the block.
LockAfterLookup_kept(p) == p

\* The guard of the lookup is dropped at the end of its block (line 280).
LockAfterLookup(p) == Free

\* A plausible slip: the endpoint is not looked at.
Resolve_noEndpoint(region, endpoint) ==
    IF region # None THEN "cache" ELSE "probe"

\* A plausible slip: the endpoint is looked at before the lookup's result.
Resolve_endpointFirst(region, endpoint) ==
    IF endpoint # None THEN "fallback"
    ELSE IF region # None THEN "cache"
    ELSE "probe"

\* Lines 282-295: the match on the lookup's result: a cached region is used;
\* without one a configured endpoint gives the fixed region; otherwise the
\* bucket is probed.
Resolve(region, endpoint) ==
    IF region # None THEN "cache"
    ELSE IF endpoint # None THEN "fallback"
    ELSE "probe"

\* A plausible slip: the region of the endpoint fallback is put in the cache.
CacheLookup_cachesFallback(p) ==
    /\ pc[p] = "get"
    /\ lock = p
    /\ LET region == CacheGet(cache, url[p])
           how == Resolve(region, get_config_value(builder[p], "Endpoint"))
       IN  /\ cache' = IF how = "fallback"
                       THEN CachePut(cache, url[p], FallbackRegion)
                       ELSE CacheTouch(cache, url[p])
           /\ lock' = LockAfterLookup(p)
           /\ builder' = [builder EXCEPT ![p] =
                             CASE how = "cache" -> with_config(@, "Region", region)
                               [] how = "fallback" ->
                                    with_config(@, "Region", FallbackRegion)
                               [] OTHER -> @]
           /\ source' = [source EXCEPT ![p] = IF how = "probe" THEN None ELSE how]
           /\ trace' = [trace EXCEPT ![p].looked = TRUE,
                                     ![p].found = region,
                                     ![p].warned = (how = "probe")]
           /\ pc' = [pc EXCEPT ![p] = IF how = "probe" THEN "acquire" ELSE "build"]
    /\ UNCHANGED <<opts, url, inp, opened, response, result, permits, held,
                   downloads, lastInsert, tin, tout>>

\* Lines 279-295: the lookup under the lock, then the branch Resolve names:
\* the region is set in the builder, or the warning is printed and the probe
\* is next.
CacheLookup(p) ==
    /\ pc[p] = "get"
    /\ lock = p
    /\ LET region == CacheGet(cache, url[p])
           how == Resolve(region, get_config_value(builder[p], "Endpoint"))
       IN  /\ cache' = CacheTouch(cache, url[p])
           /\ lock' = LockAfterLookup(p)
           /\ builder' = [builder EXCEPT ![p] =
                             CASE how = "cache" -> with_config(@, "Region", region)
                               [] how = "fallback" ->
                                    with_config(@, "Region", FallbackRegion)
                               [] OTHER -> @]
           /\ source' = [source EXCEPT ![p] = IF how = "probe" THEN None ELSE how]
           /\ trace' = [trace EXCEPT ![p].looked = TRUE,
                                     ![p].found = region,
                                     ![p].warned = (how = "probe")]
           /\ pc' = [pc EXCEPT ![p] = IF how = "probe" THEN "acquire" ELSE "build"]
    /\ UNCHANGED <<opts, url, inp, opened, response, result, permits, held,
                   downloads, lastInsert, tin, tout>>

\* A plausible slip: the request is sent outside with_concurrency_budget.
AcquireBudget_unbudgeted(p) ==
    /\ pc[p] = "acquire"
    /\ trace' = [trace EXCEPT ![p].probed = TRUE]
    /\ pc' = [pc EXCEPT ![p] = "probing"]
    /\ UNCHANGED <<opts, url, inp, builder, opened, response, source, result,
                   cache, lock, permits, held, downloads, lastInsert, tin, tout>>

\* with_concurrency_budget(1, ..): the call waits until a unit of the budget
\* is free and takes it; the closure then sends the HEAD request.
AcquireBudget(p) ==
    /\ pc[p] = "acquire"
    /\ permits >= ProbeBudget
    /\ permits' = permits - ProbeBudget
    /\ held' = [held EXCEPT ![p] = ProbeBudget]
    /\ trace' = [trace EXCEPT ![p].probed = TRUE]
    /\ pc' = [pc EXCEPT ![p] = "probing"]
    /\ UNCHANGED <<opts, url, inp, builder, opened, response, source, result,
                   cache, lock, downloads, lastInsert, tin, tout>>

\* Lines 301-308: the request ends and the unit is returned.  A transport
\* error and a header that is not UTF-8 return Err from build_aws (the two
\* `?`); a response without the header goes on without a region; a region
\* goes to the insert.
ProbeEnds(p, outcome) ==
    /\ pc[p] = "probing"
    /\ permits' = permits + held[p]
    /\ held' = [held EXCEPT ![p] = 0]
    /\ response' = [response EXCEPT ![p] = outcome]
    /\ pc' = [pc EXCEPT ![p] =
                 CASE outcome \in {"transport_error", "bad_utf8"} -> "done"
                   [] outcome = "no_header" -> "build"
                   [] OTHER -> "lock_insert"]
    /\ result' = [result EXCEPT ![p] =
                     CASE outcome = "transport_error" -> Error("probe")
                       [] outcome = "bad_utf8" -> Error("utf8")
                       [] OTHER -> NoResult]
    /\ UNCHANGED <<opts, url, inp, builder, opened, source, trace, cache,
                   lock, downloads, lastInsert, tin, tout>>

\* BUCKET_REGION.lock().unwrap() of the insert (line 309).
LockForInsert(p) ==
    /\ pc[p] = "lock_insert"
    /\ lock = Free
    /\ lock' = p
    /\ pc' = [pc EXCEPT ![p] = "insert"]
    /\ UNCHANGED <<opts, url, inp, builder, opened, response, source, trace,
                   result, cache, permits, held, downloads, lastInsert, tin, tout>>

\* A plausible slip: an entry that is already there is kept.
Inserted_ifAbsent(c, bucket, region) ==
    IF InCache(c, bucket) THEN c ELSE CachePut(c, bucket, region)

\* bucket_region.insert(bucket.into(), region.into()) (line 310)
Inserted(c, bucket, region) == CachePut(c, bucket, region)

\* Lines 310-312: the insert, the region set in the builder, the guard
\* dropped at the end of the `if let`.
CacheInsert(p) ==
    /\ pc[p] = "insert"
    /\ lock = p
    /\ cache' = Inserted(cache, url[p], response[p])
    /\ lastInsert' = [lastInsert EXCEPT ![url[p]] = response[p]]
    /\ builder' = [builder EXCEPT ![p] = with_config(@, "Region", response[p])]
    /\ source' = [source EXCEPT ![p] = "probe"]
    /\ trace' = [trace EXCEPT ![p].inserted = TRUE]
    /\ lock' = Free
    /\ pc' = [pc EXCEPT ![p] = "build"]
    /\ UNCHANGED <<opts, url, inp, opened, response, result, permits, held,
                   downloads, tin, tout>>

\* Lines 318-322: builder.build(), which the SDK may refuse.
BuildClient(p, accepted) ==
    /\ pc[p] = "build"
    /\ result' = [result EXCEPT ![p] =
                     IF accepted
                     THEN Client(builder[p], get_retry_config(opts[p].max_retries))
                     ELSE Error("build")]
    /\ pc' = [pc EXCEPT ![p] = "done"]
    /\ UNCHANGED <<opts, url, inp, builder, opened, response, source, trace,
                   cache, lock, permits, held, downloads, lastInsert, tin, tout>>

\* A plausible slip: a suspension point after the insert.
AtAwait_afterInsert(p) == pc[p] \in {"acquire", "probing", "build"}

\* The suspension points of build_aws: the wait for the budget and the
\* request in flight (the .await of lines 302 and 305).
AtAwait(p) == pc[p] \in {"acquire", "probing"}

\* A plausible slip: the unit of a dropped call is not given back.
Cancel_leaks(p) ==
    /\ AtAwait(p)
    /\ held' = [held EXCEPT ![p] = 0]
    /\ pc' = [pc EXCEPT ![p] = "cancelled"]
    /\ UNCHANGED <<opts, url, inp, builder, opened, response, source, trace,
                   result, cache, lock, permits, downloads, lastInsert, tin,
                   tout>>

\* The future of build_aws is dropped at a suspension point: nothing of the
\* call runs any more, and a unit it holds goes back to the budget.
Cancel(p) ==
    /\ AtAwait(p)
    /\ permits' = permits + held[p]
    /\ held' = [held EXCEPT ![p] = 0]
    /\ pc' = [pc EXCEPT ![p] = "cancelled"]
    /\ UNCHANGED <<opts, url, inp, builder, opened, response, source, trace,
                   result, cache, lock, downloads, lastInsert, tin, tout>>

\* The caller has taken the result; p is free for the next call.
Return(p) ==
    /\ pc[p] \in {"done", "cancelled"}
    /\ pc' = [pc EXCEPT ![p] = "idle"]
    /\ opts' = [opts EXCEPT ![p] = IdleOpts]
    /\ url' = [url EXCEPT ![p] = BadUrl]
    /\ inp' = [inp EXCEPT ![p] = IdleInp]
    /\ builder' = [builder EXCEPT ![p] = EmptyBuilder]
    /\ opened' = [opened EXCEPT ![p] = {}]
    /\ response' = [response EXCEPT ![p] = None]
    /\ source' = [source EXCEPT ![p] = None]
    /\ trace' = [trace EXCEPT ![p] = IdleTrace]
    /\ result' = [result EXCEPT ![p] = NoResult]
    /\ UNCHANGED <<cache, lock, permits, held, downloads, lastInsert, tin, tout>>

\* An unrelated download takes a unit of the budget ...
StartDownload ==
    /\ permits >= 1
    /\ permits' = permits - 1
    /\ downloads' = downloads + 1
    /\ UNCHANGED <<callVars, cache, lock, held, lastInsert, tin, tout>>

\* ... and returns it when it ends.
FinishDownload ==
    /\ downloads >= 1
    /\ permits' = permits + 1
    /\ downloads' = downloads - 1
    /\ UNCHANGED <<callVars, cache, lock, held, lastInsert, tin, tout>>

\* The steps of a call after its start.
BuildStep(p) ==
    \/ LockForLookup(p)
    \/ CacheLookup(p)
    \/ AcquireBudget(p)
    \/ \E outcome \in ProbeOutcomes : ProbeEnds(p, outcome)
    \/ LockForInsert(p)
    \/ CacheInsert(p)
    \/ \E accepted \in BOOLEAN : BuildClient(p, accepted)
    \/ Cancel(p)
    \/ Return(p)

-----------------------------------------------------------------------------
(* Concurrent builds *)

\* Buckets of the model: the cache can hold one more than its capacity.
AllBuckets == 1..(CacheCapacity + 1)

CallsOf(urls, awss, envs, fss) ==
    [url : urls, aws : awss, env : envs, fs : fss, retries : {<<>>}]

\* Calls of the concurrent builds: two buckets; no region, a region
\* override, or an endpoint override.
ConcurrentCalls ==
    CallsOf({1, 2},
            {NoConfigs, Some(<< <<"Region", "ap-south-1">> >>),
             Some(<< <<"Endpoint", "http://minio:9000">> >>)},
            {EmptyEnv}, {NoFiles})

InitShared ==
    /\ pc = [p \in Procs |-> "idle"]
    /\ opts = [p \in Procs |-> IdleOpts]
    /\ url = [p \in Procs |-> BadUrl]
    /\ inp = [p \in Procs |-> IdleInp]
    /\ builder = [p \in Procs |-> EmptyBuilder]
    /\ opened = [p \in Procs |-> {}]
    /\ response = [p \in Procs |-> None]
    /\ source = [p \in Procs |-> None]
    /\ trace = [p \in Procs |-> IdleTrace]
    /\ result = [p \in Procs |-> NoResult]
    /\ lock = Free
    /\ permits = Budget
    /\ held = [p \in Procs |-> 0]
    /\ downloads = 0

\* from_untyped_config has not been called.
NoInput == [url |-> <<>>, config |-> <<>>]

NoOutput ==
    [done |-> FALSE, ok |-> FALSE, options |-> DefaultOptions, err |-> None,
     tag |-> None, url |-> <<>>]

Init ==
    /\ InitShared
    /\ cache = <<>>
    /\ lastInsert = [b \in AllBuckets |-> None]
    /\ tin = NoInput
    /\ tout = NoOutput

Next ==
    \/ \E p \in Procs : \E call \in ConcurrentCalls : BuildAws(p, call)
    \/ \E p \in Procs : BuildStep(p)
    \/ StartDownload
    \/ FinishDownload

Spec == Init /\ [][Next]_vars

-----------------------------------------------------------------------------
(* One build at a time, over many configurations *)

MergeOptions ==
    {NoConfigs, Some(<<>>),
     Some(<< <<"Region", "ap-south-1">> >>),
     Some(<< <<"Region", "ap-south-1">>, <<"Region", "eu-west-1">> >>),
     Some(<< <<"DefaultRegion", "ap-south-1">> >>),
     Some(<< <<"Endpoint", "http://minio:9000">> >>),
     Some(<< <<"Endpoint", "http://minio:9000">>, <<"Region", "eu-west-1">> >>),
     Some(<< <<"AccessKeyId", "AKIA-override">> >>),
     Some(<< <<"SecretAccessKey", "secret-override">> >>)}

EnvWith(set) == [k \in Keys |-> IF k \in DOMAIN set THEN set[k] ELSE None]

MergeEnvs ==
    {EmptyEnv,
     EnvWith([Region |-> "eu-central-1"]),
     EnvWith([DefaultRegion |-> "eu-central-1"]),
     EnvWith([Endpoint |-> "http://localhost:4566"]),
     EnvWith([AccessKeyId |-> "AKIA-env", SecretAccessKey |-> "secret-env"])}

ConfigFiles ==
    {Unreadable, File(<<>>),
     File(<< <<"sso_region", "us-east-2">>, <<"region", "sa-east-1">> >>)}

CredentialsFiles ==
    {Unreadable,
     File(<< <<"aws_access_key_id", "AKIA-file">>,
             <<"aws_secret_access_key", "secret-file">> >>),
     File(<< <<"aws_secret_access_key", "secret-file">> >>),
     File(<< <<"aws_access_key_id", "AKIA-file">> >>)}

MergeFiles ==
    {[f \in {ConfigPath, CredentialsPath} |->
         IF f = ConfigPath THEN c ELSE d] : c \in ConfigFiles, d \in CredentialsFiles}

MergeCalls == CallsOf({1, BadUrl}, MergeOptions, MergeEnvs, MergeFiles)

NextMerge ==
    \/ \E call \in MergeCalls : BuildAws("b1", call)
    \/ BuildStep("b1")
    \/ StartDownload
    \/ FinishDownload

SpecMerge == Init /\ [][NextMerge]_vars

-----------------------------------------------------------------------------
(* Merge precedence and region resolution *)

\* The value the override list gives a key: that of its last pair, or None.
RECURSIVE LastOverride(_, _)
LastOverride(options, key) ==
    IF options = <<>> THEN None
    ELSE IF options[Len(options)][1] = key THEN options[Len(options)][2]
    ELSE LastOverride(SubSeq(options, 1, Len(options) - 1), key)

Override(p, key) == LastOverride(opts[p].aws.list, key)

\* The value the credential files hold for a key: the first line the key's
\* pattern matches in the key's file, None without one.
FileValue(fs, key) ==
    CASE key = "Region" ->
             Captures("region = (.*)\n", fs[ConfigPath].lines)
      [] key = "AccessKeyId" ->
             Captures("aws_access_key_id = (.*)\n", fs[CredentialsPath].lines)
      [] key = "SecretAccessKey" ->
             Captures("aws_secret_access_key = (.*)\n", fs[CredentialsPath].lines)
      [] OTHER -> None

\* The fallback gets to a key's rule: the secret key's rule comes after the
\* access key's, which must be set or found.
RuleReached(p, key) ==
    key = "SecretAccessKey" =>
        \/ Override(p, "AccessKeyId") # None
        \/ inp[p].env["AccessKeyId"] # None
        \/ FileValue(inp[p].fs, "AccessKeyId") # None

\* The call has got a region from the cache, the endpoint fallback or a probe.
Discovered(p) == source[p] \in {"cache", "fallback", "probe"}

C2_RegionOverride ==
    \A p \in Procs :
        (pc[p] # "idle" /\ Override(p, "Region") # None) =>
            /\ builder[p]["Region"] = Override(p, "Region")
            /\ ~trace[p].looked
            /\ ~trace[p].probed
            /\ pc[p] \in {"build", "done"}
            /\ result[p].kind = "client"
                   => result[p].config["Region"] = Override(p, "Region")

\* C2's case: a client built with a region override while the cache holds a
\* region for its bucket, the environment another and the config file a third.
C2_Witness ==
    \E p \in Procs :
        /\ result[p].kind = "client"
        /\ Override(p, "Region") = "eu-west-1"
        /\ url[p] # BadUrl
        /\ InCache(cache, url[p])
        /\ CacheGet(cache, url[p]) # "eu-west-1"
        /\ FileValue(inp[p].fs, "Region") # None

\* The call needed a region, looked into the cache, and has an endpoint.
EndpointNoRegion(p) ==
    /\ trace[p].looked
    /\ builder[p]["Endpoint"] # None

\* C3 as stated: with an endpoint and no region the resolved region is the
\* fixed "us-east-1" and nothing is probed, whatever the cache holds.
C3_Original ==
    \A p \in Procs :
        EndpointNoRegion(p) =>
            /\ builder[p]["Region"] = FallbackRegion
            /\ ~trace[p].probed

\* C3 amended: with an endpoint and no region nothing is probed and no
\* warning is printed; the region is "us-east-1" when the lookup found no
\* entry for the bucket, and the region the lookup found otherwise.
C3_EndpointFallback ==
    \A p \in Procs :
        EndpointNoRegion(p) =>
            /\ ~trace[p].probed
            /\ ~trace[p].warned
            /\ pc[p] \in {"build", "done"}
            /\ source[p] \in {"cache", "fallback"}
            /\ trace[p].found = None =>
                   /\ source[p] = "fallback"
                   /\ builder[p]["Region"] = FallbackRegion
            /\ trace[p].found # None =>
                   /\ source[p] = "cache"
                   /\ builder[p]["Region"] = trace[p].found

\* C3's case: an endpoint call that missed the cache and took the fixed region.
C3_Witness ==
    \E p \in Procs :
        /\ EndpointNoRegion(p)
        /\ trace[p].found = None
        /\ result[p].kind = "client"
        /\ result[p].config["Region"] = FallbackRegion

-----------------------------------------------------------------------------
(* The probe, the lock and the budget *)

\* C4 as stated: a probe that ends in a transport error or in a response
\* without the region header does not make build_aws return an error; the
\* call goes on to build the client without a region, the warning printed.
C4_ProbeFailureIsSoft ==
    \A p \in Procs :
        response[p] \in {"transport_error", "no_header"} =>
            /\ trace[p].warned
            /\ result[p].kind = "error" => result[p].cause = "build"
            /\ pc[p] \in {"build", "done"}
            /\ builder[p]["Region"] = None

\* C5: the lock is held only inside a lookup or an insert, never by a call
\* that waits for the budget or for the probe's response.
C5_LockOnlyAroundCacheAccess ==
    \A p \in Procs :
        /\ lock = p => pc[p] \in {"get", "insert"}
        /\ pc[p] \in {"acquire", "probing"} => lock # p

\* C5's case: one call takes the lock while another has its probe in flight.
C5_Witness ==
    \E p, q \in Procs :
        /\ p # q
        /\ pc[p] = "probing"
        /\ lock = q

\* C6: a call that missed the cache takes the budget whenever a unit is free,
\* whatever the other calls are doing, and the entry of a bucket in the cache
\* is the region of the last completed insert for it.
C6_IndependentProbes ==
    /\ \A p \in Procs :
           (pc[p] = "acquire" /\ permits >= ProbeBudget) => ENABLED AcquireBudget(p)
    /\ \A b \in AllBuckets :
           (lastInsert[b] # None /\ InCache(cache, b))
               => CacheGet(cache, b) = lastInsert[b]

\* C6's case: two calls probe the same bucket at the same time.
C6_Witness ==
    \E p, q \in Procs :
        /\ p # q
        /\ pc[p] = "probing"
        /\ pc[q] = "probing"
        /\ url[p] = url[q]

\* C7: a call cancelled while it waits for the budget or for the response
\* has written nothing to the cache, holds no unit of the budget and has
\* given its caller nothing; the cancellation itself leaves the cache as it is.
C7_CancelLeavesNothing ==
    /\ [](\A p \in Procs :
             pc[p] = "cancelled" =>
                 /\ result[p] = NoResult
                 /\ ~trace[p].inserted
                 /\ response[p] = None
                 /\ held[p] = 0
                 /\ lock # p)
    /\ [][\A p \in Procs :
             (pc[p] # "cancelled" /\ pc'[p] = "cancelled") =>
                 /\ pc[p] \in {"acquire", "probing"}
                 /\ cache' = cache
                 /\ lastInsert' = lastInsert]_vars

\* C7's case: a call cancelled with its request in flight, the cache holding
\* another call's entry for the same bucket.
C7_Witness ==
    \E p \in Procs :
        /\ pc[p] = "cancelled"
        /\ trace[p].probed
        /\ InCache(cache, url[p])

RECURSIVE SumOver(_, _)
SumOver(f, set) ==
    IF set = {} THEN 0
    ELSE LET x == CHOOSE y \in set : TRUE
         IN  f[x] + SumOver(f, set \ {x})

\* Probes with their request in flight.
Probing == {p \in Procs : pc[p] = "probing"}

\* C9: a call holds one unit of the budget exactly while its request is in
\* flight, and the probes and downloads in flight never exceed the budget.
C9_BudgetRespected ==
    /\ permits >= 0
    /\ permits + SumOver(held, Procs) + downloads = Budget
    /\ \A p \in Procs : held[p] = IF pc[p] = "probing" THEN 1 ELSE 0
    /\ Cardinality(Probing) + downloads <= Budget

\* C9's case: the budget is used up by a probe and a download while another
\* call waits for a unit.
C9_Witness ==
    \E p, q \in Procs :
        /\ pc[p] = "probing"
        /\ pc[q] = "acquire"
        /\ downloads >= 1
        /\ permits = 0

-----------------------------------------------------------------------------
(* A cache close to its capacity *)

\* The cache after builds for buckets 1 .. CacheCapacity - 1, each probed
\* once and in this order: bucket 1 is the least recently used entry.
WarmCache == [i \in 1..(CacheCapacity - 1) |-> <<i, "eu-west-1">>]

\* Calls without any configuration, for the least recently used bucket and
\* for two buckets the cache does not hold.
CacheCalls ==
    CallsOf({1, CacheCapacity, CacheCapacity + 1}, {NoConfigs}, {EmptyEnv}, {NoFiles})

InitCache ==
    /\ InitShared
    /\ cache = WarmCache
    /\ lastInsert = [b \in AllBuckets |-> CacheGet(WarmCache, b)]
    /\ tin = NoInput
    /\ tout = NoOutput

NextCache ==
    \/ \E p \in Procs : \E call \in CacheCalls : BuildAws(p, call)
    \/ \E p \in Procs : BuildStep(p)
    \/ StartDownload
    \/ FinishDownload

SpecCache == InitCache /\ [][NextCache]_vars

Buckets(c) == {c[i][1] : i \in 1..Len(c)}

\* C8: the cache never holds more than 32 entries, one per bucket, and an
\* insert of a new bucket into a full cache drops the least recently used
\* entry and nothing else.
C8_CacheBounded ==
    /\ [](/\ Len(cache) <= 32
          /\ Cardinality(Buckets(cache)) = Len(cache))
    /\ [][\A p \in Procs :
             (/\ pc[p] = "insert"
              /\ pc'[p] = "build"
              /\ Len(cache) = 32
              /\ ~InCache(cache, url[p]))
                 => cache' = Append(Tail(cache), <<url[p], response[p]>>)]_vars

\* C8's case: the full cache has dropped bucket 1 for a new bucket.
C8_Witness ==
    /\ Len(cache) = 32
    /\ ~InCache(cache, 1)
    /\ InCache(cache, 2)
    /\ InCache(cache, CacheCapacity + 1)

-----------------------------------------------------------------------------
(* from_untyped_config *)

\* A string is the sequence of its pieces: words, "/" , " " and the scheme
\* separator "://".
Sep == "://"

Contains(input, piece) == \E i \in 1..Len(input) : input[i] = piece

\* ASCII lower case of a word.
Lower(word) ==
    CASE word = "S3" -> "s3"
      [] word = "HTTP" -> "http"
      [] word = "Users" -> "users"
      [] OTHER -> word

ParseOk(scheme, host, path) ==
    [ok |-> TRUE, scheme |-> scheme, host |-> host, path |-> path, err |-> None]

ParseErr(err) ==
    [ok |-> FALSE, scheme |-> "", host |-> "", path |-> <<>>, err |-> err]

\* Percent-encoding of a path: the url keeps no space.
PercentEncode(path) ==
    [i \in 1..Len(path) |-> IF path[i] = " " THEN "%20" ELSE path[i]]

\* Schemes whose urls need a host.
NeedHost == {"http", "https", "ftp"}

\* The slashes between the separator and the host of a NeedHost url.
RECURSIVE StripSlashes(_)
StripSlashes(rest) ==
    IF rest # <<>> /\ rest[1] = "/" THEN StripSlashes(Tail(rest)) ELSE rest

\* Url::parse: the scheme is the word before the separator, in lower case;
\* the host is the word after it, in lower case for http, https, ftp and
\* file; a url of NeedHost without a host is an error, as is a string that
\* does not start with a scheme.
UrlParse(input) ==
    IF Len(input) < 2 \/ input[1] \in {"/", " ", Sep} \/ input[2] # Sep
    THEN ParseErr("relative URL without a base")
    ELSE LET scheme == Lower(input[1])
             after == SubSeq(input, 3, Len(input))
             rest == IF scheme \in NeedHost THEN StripSlashes(after) ELSE after
             hasHost == rest # <<>> /\ rest[1] \notin {"/", " "}
             host == IF hasHost THEN rest[1] ELSE ""
             path == IF hasHost THEN Tail(rest) ELSE rest
             special == scheme \in NeedHost \cup {"file"}
         IN  IF scheme \in NeedHost /\ ~hasHost THEN ParseErr("empty host")
             ELSE ParseOk(scheme,
                          IF special THEN Lower(host) ELSE host,
                          IF special /\ path = <<>> THEN <<"/">>
                          ELSE PercentEncode(path))

\* std::env::current_dir()
Cwd == <<"/", "srv", "/", "my", " ", "work">>

is_relative(path) == path = <<>> \/ path[1] # "/"

\* PathBuf::push of a relative path.
Push_replace(dir, path) == path

Push(dir, path) == dir \o <<"/">> \o path

\* Url::from_file_path of an absolute path.
from_file_path(path) == ParseOk("file", "", PercentEncode(path))

\* parse_url
parse_url(input) ==
    IF Contains(input, Sep) THEN UrlParse(input)
    ELSE LET path == IF is_relative(input) THEN Push(Cwd, input) ELSE input
         IN  from_file_path(path)

\* Url::as_str
as_str(parsed) ==
    <<parsed.scheme, Sep>>
        \o (IF parsed.host = "" THEN <<>> ELSE <<parsed.host>>)
        \o parsed.path

\* CloudType::from_url: the tag of a scheme, None for "unknown url scheme".
from_url_anyAsFile(scheme) ==
    CASE scheme \in {"s3", "s3a"} -> "Aws"
      [] scheme \in {"az", "azure", "adl", "abfs", "abfss"} -> "Azure"
      [] scheme \in {"gs", "gcp", "gcs"} -> "Gcp"
      [] scheme \in {"http", "https"} -> "Http"
      [] OTHER -> "File"

from_url(scheme) ==
    CASE scheme \in {"s3", "s3a"} -> "Aws"
      [] scheme \in {"az", "azure", "adl", "abfs", "abfss"} -> "Azure"
      [] scheme \in {"gs", "gcp", "gcs"} -> "Gcp"
      [] scheme = "file" -> "File"
      [] scheme \in {"http", "https"} -> "Http"
      [] OTHER -> None

\* CloudType::from_str: the tag, or the error of the parse or of from_url.
from_str(u) ==
    LET parsed == parse_url(u)
    IN  IF ~parsed.ok THEN [tag |-> None, err |-> parsed.err]
        ELSE LET tag == from_url(parsed.scheme)
             IN  [tag |-> tag,
                  err |-> IF tag = None THEN "unknown url scheme" ELSE None]

\* Urls of from_untyped_config calls, one or two of each kind.
TypingUrls ==
    {<<"s3", Sep, "bucket", "/", "key">>,
     <<"abfss", Sep, "container", "/", "key">>,
     <<"gs", Sep, "bucket", "/", "key">>,
     <<"file", Sep, "/", "tmp", "/", "data.csv">>,
     <<"https", Sep, "host", "/", "data.csv">>,
     <<"ftp", Sep, "host", "/", "data.csv">>,
     <<"data.csv">>}

Output(ok, options, err) ==
    [done |-> TRUE, ok |-> ok, options |-> options, err |-> err,
     tag |-> None, url |-> <<>>]

\* PolarsResult::map of from_untyped_config: the options of typed configs,
\* or the typing's error and no options.
MapTyped(typed, options) ==
    IF typed.ok THEN Output(TRUE, options, None)
    ELSE Output(FALSE, DefaultOptions, typed.err)

\* CloudOptions::from_untyped_config, all provider features enabled.
from_untyped_config(u, config) ==
    LET tag == from_str(u).tag
    IN  CASE tag = None -> Output(FALSE, DefaultOptions, from_str(u).err)
          [] tag = "Aws" ->
                 LET t == parsed_untyped_config("aws", config)
                 IN  MapTyped(t, with_aws(DefaultOptions, t.configs))
          [] tag = "Azure" ->
                 LET t == parsed_untyped_config("azure", config)
                 IN  MapTyped(t, with_azure(DefaultOptions, t.configs))
          [] tag = "Gcp" ->
                 LET t == parsed_untyped_config("gcp", config)
                 IN  MapTyped(t, with_gcp(DefaultOptions, t.configs))
          [] tag \in {"File", "Http"} -> Output(TRUE, DefaultOptions, None)

UntypedKeys ==
    {"region", "aws_region", "endpoint", "Region", "account_name",
     "service_account", "bogus"}

UntypedValues == {"v1", "v2"}

\* Sequences over a set, up to a length.
RECURSIVE SeqsUpTo(_, _)
SeqsUpTo(set, n) ==
    IF n = 0 THEN {<<>>}
    ELSE LET shorter == SeqsUpTo(set, n - 1)
         IN  shorter \cup {Append(q, x) : q \in shorter, x \in set}

UntypedConfigs == SeqsUpTo(UntypedKeys \X UntypedValues, MaxOverrides)

\* The call of from_untyped_config on the drawn url and override sequence.
FromUntypedConfig ==
    /\ ~tout.done
    /\ tout' = from_untyped_config(tin.url, tin.config)
    /\ UNCHANGED <<callVars, cache, lock, permits, held, downloads, lastInsert, tin>>

InitTyping ==
    /\ InitShared
    /\ cache = <<>>
    /\ lastInsert = [b \in AllBuckets |-> None]
    /\ tin \in [url : TypingUrls, config : UntypedConfigs]
    /\ tout = NoOutput

NextTyping == FromUntypedConfig

SpecTyping == InitTyping /\ [][NextTyping]_vars

\* The provider whose keys type the overrides of a url.
ProviderOf(u) ==
    CASE from_str(u).tag = "Aws" -> "aws"
      [] from_str(u).tag = "Azure" -> "azure"
      [] from_str(u).tag = "Gcp" -> "gcp"
      [] OTHER -> None

\* Positions of the override sequence whose key is not a key of the provider.
InvalidAt(provider, config) ==
    {i \in 1..Len(config) : KeyFromStr(provider, config[i][1]) = None}

FirstOf(set) == CHOOSE i \in set : \A j \in set : i <= j

\* C10: a sequence of keys all valid for the url's provider is typed pair by
\* pair, in order, values unchanged; a sequence with an invalid key fails
\* with the first invalid key and gives no options.
C10_KeyTyping ==
    (tout.done /\ ProviderOf(tin.url) # None) =>
        LET provider == ProviderOf(tin.url)
            config == tin.config
            bad == InvalidAt(provider, config)
            typed == CASE provider = "aws" -> tout.options.aws
                       [] provider = "azure" -> tout.options.azure
                       [] provider = "gcp" -> tout.options.gcp
        IN  IF bad = {}
            THEN /\ tout.ok
                 /\ typed.some
                 /\ Len(typed.list) = Len(config)
                 /\ \A i \in 1..Len(config) :
                        /\ typed.list[i][1] = KeyFromStr(provider, config[i][1])
                        /\ typed.list[i][2] = config[i][2]
            ELSE /\ ~tout.ok
                 /\ tout.err = config[FirstOf(bad)][1]
                 /\ tout.options = DefaultOptions

\* C10's case: a valid key followed by an invalid one has failed the typing.
C10_Witness ==
    /\ tout.done
    /\ ~tout.ok
    /\ ProviderOf(tin.url) = "aws"
    /\ Len(tin.config) = 2
    /\ InvalidAt("aws", tin.config) = {2}

\* The tag of a url of TypingUrls, as the scheme table gives it; a string
\* without a scheme is a path.
TagOf(u) ==
    IF Len(u) >= 2 /\ u[2] = Sep
    THEN CASE u[1] \in {"s3", "s3a"} -> "Aws"
           [] u[1] \in {"az", "azure", "adl", "abfs", "abfss"} -> "Azure"
           [] u[1] \in {"gs", "gcp", "gcs"} -> "Gcp"
           [] u[1] = "file" -> "File"
           [] u[1] \in {"http", "https"} -> "Http"
           [] OTHER -> None
    ELSE "File"

\* C17: the options from_untyped_config returns have the list of the
\* provider of the url's tag and no other list; for a file or http url the
\* call succeeds with the default options whatever the overrides are.
C17_ProviderList ==
    tout.done =>
        LET tag == TagOf(tin.url)
            o == tout.options
        IN  /\ tout.ok =>
                /\ o.aws.some <=> tag = "Aws"
                /\ o.azure.some <=> tag = "Azure"
                /\ o.gcp.some <=> tag = "Gcp"
                /\ o.max_retries = DefaultMaxRetries
            /\ tag \in {"File", "Http"} => tout.ok /\ o = DefaultOptions

\* C17's case: a gs url with two overrides has given options with the gcp
\* list, of two pairs, and no aws and no azure list.
C17_Witness ==
    /\ tout.done
    /\ tout.ok
    /\ TagOf(tin.url) = "Gcp"
    /\ Len(tin.config) = 2
    /\ tout.options.gcp.some
    /\ Len(tout.options.gcp.list) = 2
    /\ ~tout.options.aws.some
    /\ ~tout.options.azure.some

-----------------------------------------------------------------------------
(* with_max_retries and the retry configuration of the three clients *)

\* MicrosoftAzureBuilder::from_env() and GoogleCloudStorageBuilder::from_env()
\* in an environment that sets nothing.
EmptyAzure == [k \in {"AccountName", "AccessKey"} |-> None]

EmptyGcp == [k \in {"ServiceAccount", "Bucket"} |-> None]

\* build_azure and build_gcp: the overrides go into the builder, and the
\* client is built with the retry configuration of self.max_retries, or the
\* builder refuses the configuration.
BuildSync(p, options, retries, b0, list, accepted) ==
    /\ pc[p] = "idle"
    /\ pc' = [pc EXCEPT ![p] = "done"]
    /\ opts' = [opts EXCEPT ![p] = WithRetries(options, retries)]
    /\ inp' = [inp EXCEPT ![p] =
                  [env |-> EmptyEnv, fs |-> NoFiles, retries |-> retries,
                   before |-> options]]
    /\ url' = [url EXCEPT ![p] = 1]
    /\ result' = [result EXCEPT ![p] =
                     IF accepted
                     THEN Client(IF list.some THEN ApplyOptions(b0, list.list)
                                 ELSE b0,
                                 get_retry_config(opts'[p].max_retries))
                     ELSE Error("build")]
    /\ UNCHANGED <<builder, opened, response, source, trace, cache, lock,
                   permits, held, downloads, lastInsert, tin, tout>>

BuildAzure(p, azure, retries, accepted) ==
    BuildSync(p, IF azure.some THEN with_azure(DefaultOptions, azure.list)
                 ELSE DefaultOptions,
              retries, EmptyAzure, azure, accepted)

BuildGcp(p, gcp, retries, accepted) ==
    BuildSync(p, IF gcp.some THEN with_gcp(DefaultOptions, gcp.list)
                 ELSE DefaultOptions,
              retries, EmptyGcp, gcp, accepted)

\* with_max_retries is not called, or called with a count up to MaxRetries.
RetryChoices == {<<>>} \cup {<<n>> : n \in 0..MaxRetries}

RetryCalls ==
    [url : {1},
     aws : {NoConfigs, Some(<< <<"Region", "ap-south-1">> >>),
            Some(<< <<"Endpoint", "http://minio:9000">> >>)},
     env : {EmptyEnv}, fs : {NoFiles}, retries : RetryChoices]

AzureLists == {NoConfigs, Some(<< <<"AccountName", "acct">> >>)}

GcpLists == {NoConfigs, Some(<< <<"ServiceAccount", "sa.json">> >>)}

NextRetry ==
    \/ \E call \in RetryCalls : BuildAws("b1", call)
    \/ BuildStep("b1")
    \/ \E azure \in AzureLists, retries \in RetryChoices, accepted \in BOOLEAN :
           BuildAzure("b1", azure, retries, accepted)
    \/ \E gcp \in GcpLists, retries \in RetryChoices, accepted \in BOOLEAN :
           BuildGcp("b1", gcp, retries, accepted)

SpecRetry == Init /\ [][NextRetry]_vars

\* C14: the default options have two retries; after with_max_retries(n) the
\* options have n retries and every other field as before; and every client,
\* of build_aws, build_azure or build_gcp, has the retry configuration of
\* the options' count, the default backoff and a timeout of ten seconds.
C14_MaxRetries ==
    /\ DefaultOptions.max_retries = 2
    /\ \A p \in Procs :
           pc[p] # "idle" =>
               /\ inp[p].before.max_retries = 2
               /\ IF inp[p].retries = <<>>
                  THEN opts[p] = inp[p].before
                  ELSE /\ opts[p].max_retries = inp[p].retries[1]
                       /\ opts[p].aws = inp[p].before.aws
                       /\ opts[p].azure = inp[p].before.azure
                       /\ opts[p].gcp = inp[p].before.gcp
               /\ result[p].kind = "client" =>
                      /\ result[p].retry.max_retries
                             = (IF inp[p].retries = <<>> THEN 2
                                ELSE inp[p].retries[1])
                      /\ result[p].retry.backoff = "default"
                      /\ result[p].retry.retry_timeout = 10

\* C14's case: an azure client built after with_max_retries(0).
C14_Witness ==
    \E p \in Procs :
        /\ result[p].kind = "client"
        /\ inp[p].retries = <<0>>
        /\ opts[p].azure.some
        /\ result[p].config = [EmptyAzure EXCEPT !["AccountName"] = "acct"]
        /\ result[p].retry.max_retries = 0

-----------------------------------------------------------------------------
(* Region discovery and the cache's entries *)

\* C16: the lookup comes first: a cached region is used whatever the
\* endpoint is, without warning or probe; the fixed region is used only on a
\* miss with an endpoint, and the probe is sent only on a miss without one.
\* A lookup that finds the region a probe put in the cache for the bucket
\* goes on to build the client with it.
C16_ResolutionOrder ==
    /\ [](\A p \in Procs :
            /\ (trace[p].looked /\ trace[p].found # None) =>
                   /\ source[p] = "cache"
                   /\ builder[p]["Region"] = trace[p].found
                   /\ ~trace[p].warned
                   /\ ~trace[p].probed
            /\ source[p] = "cache" => trace[p].looked /\ trace[p].found # None
            /\ source[p] = "fallback" =>
                   /\ trace[p].looked
                   /\ trace[p].found = None
                   /\ builder[p]["Endpoint"] # None
                   /\ ~trace[p].probed
            /\ trace[p].probed =>
                   /\ trace[p].looked
                   /\ trace[p].found = None
                   /\ builder[p]["Endpoint"] = None)
    /\ [][\A p \in Procs :
            (/\ pc[p] = "get"
             /\ pc'[p] # "get"
             /\ InCache(cache, url[p])
             /\ CacheGet(cache, url[p]) = lastInsert[url[p]])
                => /\ pc'[p] = "build"
                   /\ builder'[p]["Region"] = lastInsert[url[p]]
                   /\ ~trace'[p].probed]_vars

\* C16's case: a build with an endpoint and no region has found the region an
\* earlier probe put in the cache for its bucket, and its client has it.
C16_Witness ==
    \E p \in Procs :
        /\ result[p].kind = "client"
        /\ source[p] = "cache"
        /\ builder[p]["Endpoint"] # None
        /\ result[p].config["Region"] = lastInsert[url[p]]
        /\ lastInsert[url[p]] \in Regions
        /\ ~trace[p].probed

\* The bucket-region pairs in the cache.
Entries(c) == {c[i] : i \in 1..Len(c)}

\* C18: the cache gets a pair only from a build that has probed the pair's
\* bucket and got the pair's region in the response; no configured region
\* and no fixed fallback region is in it, and no other step changes its pairs.
C18_EntriesFromProbes ==
    /\ [](/\ \A e \in Entries(cache) : e[2] \in Regions
          /\ \A p \in Procs :
                 trace[p].inserted =>
                     /\ trace[p].probed
                     /\ response[p] \in Regions
                     /\ lastInsert[url[p]] \in Regions)
    /\ [][Entries(cache') # Entries(cache) =>
            \E p \in Procs :
                /\ pc[p] = "insert"
                /\ pc'[p] = "build"
                /\ trace[p].probed
                /\ response[p] \in Regions
                /\ Entries(cache') \ Entries(cache) = {<<url[p], response[p]>>}]_vars

\* C18's case: a build with an endpoint has ended with the fixed region, a
\* build with a configured region has ended too, and the cache holds only the
\* pair a probe of another bucket wrote.
C18_Witness ==
    \E p, q \in Procs :
        /\ pc[p] = "done"
        /\ source[p] = "fallback"
        /\ result[p].kind = "client"
        /\ result[p].config["Region"] = FallbackRegion
        /\ ~InCache(cache, url[p])
        /\ url[q] # url[p]
        /\ trace[q].inserted
        /\ Entries(cache) = {<<url[q], response[q]>>}

-----------------------------------------------------------------------------
(* Progress of concurrent builds *)

\* Fair scheduling: a build that can run a step of its own code runs it, a
\* probe that was sent ends, a download that holds a unit ends, and a build
\* waiting for the lock or for a unit gets it if it is free again and again.
\* Nothing makes a caller start a build, drop one or take its result.
Fairness ==
    /\ \A p \in Procs :
           /\ SF_vars(LockForLookup(p))
           /\ WF_vars(CacheLookup(p))
           /\ SF_vars(AcquireBudget(p))
           /\ WF_vars(\E outcome \in ProbeOutcomes : ProbeEnds(p, outcome))
           /\ SF_vars(LockForInsert(p))
           /\ WF_vars(CacheInsert(p))
           /\ WF_vars(\E accepted \in BOOLEAN : BuildClient(p, accepted))
    /\ WF_vars(FinishDownload)

\* Calls of the fair builds: one bucket, with and without an endpoint.
LiveCalls ==
    CallsOf({1}, {NoConfigs, Some(<< <<"Endpoint", "http://minio:9000">> >>)},
            {EmptyEnv}, {NoFiles})

NextLive ==
    \/ \E p \in Procs : \E call \in LiveCalls : BuildAws(p, call)
    \/ \E p \in Procs : BuildStep(p)
    \/ StartDownload
    \/ FinishDownload

SpecLive == Init /\ [][NextLive]_vars /\ Fairness

\* The call of p is running: started, and neither returned nor dropped.
Running(p) == pc[p] \notin {"idle", "done", "cancelled"}

\* C20: under fair scheduling every running build ends, with a client or an
\* error unless its caller drops it, and a build that holds the cache lock
\* lets go of it.
C20_BuildsReturn ==
    \A p \in Procs :
        /\ Running(p) ~>
               \/ pc[p] = "done" /\ result[p].kind \in {"client", "error"}
               \/ pc[p] = "cancelled"
        /\ (lock = p) ~> (lock # p)

\* C20's case: a build waits for a unit of the budget while the other build
\* probes and a download holds the other unit.
C20_Witness ==
    \E p, q \in Procs :
        /\ pc[p] = "acquire"
        /\ pc[q] = "probing"
        /\ permits = 0
        /\ downloads >= 1

-----------------------------------------------------------------------------
(* read_config *)

\* The value a key has when read_config is called: the override, or the
\* environment's value, or None.
BeforeFiles(p, key) ==
    IF Override(p, key) # None THEN Override(p, key) ELSE inp[p].env[key]

\* The keys the rules of a file fill.
KeysOf(path) ==
    IF path = ConfigPath THEN {"Region"} ELSE {"AccessKeyId", "SecretAccessKey"}

\* C12: a file all of whose keys are set when read_config gets to it is not
\* opened, and its keys keep the values they had.
C12_SkipWhenAllSet ==
    \A p \in Procs :
        pc[p] # "idle" =>
            \A path \in {ConfigPath, CredentialsPath} :
                (\A key \in KeysOf(path) : BeforeFiles(p, key) # None) =>
                    /\ path \notin opened[p]
                    /\ \A key \in KeysOf(path) :
                           builder[p][key] = BeforeFiles(p, key)

\* C12's case: the overrides set the region, the config file has a region
\* line and was not opened, while the credentials file was.
C12_Witness ==
    \E p \in Procs :
        /\ pc[p] = "done"
        /\ result[p].kind = "client"
        /\ Override(p, "Region") # None
        /\ FileValue(inp[p].fs, "Region") # None
        /\ ConfigPath \notin opened[p]
        /\ CredentialsPath \in opened[p]
        /\ builder[p]["Region"] = Override(p, "Region")

\* C13: a file that cannot be opened, read or decoded leaves every key as it
\* was, does not keep the other file from being read, and is not the cause
\* of an error of build_aws.
C13_UnreadableFileIsSoft ==
    \A p \in Procs :
        (pc[p] # "idle" /\ \E path \in opened[p] : ~inp[p].fs[path].readable) =>
            /\ \A path \in opened[p] :
                   ~inp[p].fs[path].readable =>
                       \A key \in KeysOf(path) :
                           \/ builder[p][key] = BeforeFiles(p, key)
                           \/ key = "Region" /\ Discovered(p)
            /\ \A key \in Keys :
                   BeforeFiles(p, key) # None => builder[p][key] = BeforeFiles(p, key)
            /\ (\E key \in KeysOf(CredentialsPath) : BeforeFiles(p, key) = None)
                   => CredentialsPath \in opened[p]
            /\ result[p].kind = "error" =>
                   result[p].cause \in {"location", "probe", "utf8", "build"}
            /\ (pc[p] = "done" /\ \E key \in {"Region", "DefaultRegion"} :
                                       BeforeFiles(p, key) # None)
                   => result[p].kind = "client" \/ result[p].cause = "build"

\* C13's case: the config file could not be read, the credentials file was
\* read after it and gave both keys, and the build returned a client.
C13_Witness ==
    \E p \in Procs :
        /\ pc[p] = "done"
        /\ result[p].kind = "client"
        /\ ConfigPath \in opened[p]
        /\ ~inp[p].fs[ConfigPath].readable
        /\ CredentialsPath \in opened[p]
        /\ result[p].config["AccessKeyId"] = "AKIA-file"
        /\ result[p].config["SecretAccessKey"] = "secret-file"
        /\ source[p] = "probe"

\* C19: when the pattern of an unset key does not match the file, the rules
\* after it are not applied, so the secret key stays as it was when the
\* access key's line is missing, and the keys filled before keep the file's
\* values; the other read_config call is not affected.
C19_UnmatchedRuleStops ==
    \A p \in Procs :
        (pc[p] # "idle" /\ inp[p].fs[CredentialsPath].readable) =>
            LET fs == inp[p].fs
            IN  /\ (BeforeFiles(p, "AccessKeyId") = None
                        /\ FileValue(fs, "AccessKeyId") = None)
                       => /\ CredentialsPath \in opened[p]
                          /\ builder[p]["AccessKeyId"] = None
                          /\ builder[p]["SecretAccessKey"]
                                 = BeforeFiles(p, "SecretAccessKey")
                /\ (BeforeFiles(p, "AccessKeyId") = None
                        /\ FileValue(fs, "AccessKeyId") # None
                        /\ BeforeFiles(p, "SecretAccessKey") = None
                        /\ FileValue(fs, "SecretAccessKey") = None)
                       => /\ builder[p]["AccessKeyId"] = FileValue(fs, "AccessKeyId")
                          /\ builder[p]["SecretAccessKey"] = None
                /\ (fs[ConfigPath].readable
                        /\ BeforeFiles(p, "Region") = None
                        /\ FileValue(fs, "Region") = None
                        /\ \E key \in KeysOf(CredentialsPath) :
                               BeforeFiles(p, key) = None)
                       => opened[p] = {ConfigPath, CredentialsPath}

\* C19's case: the credentials file has a secret-key line and no access-key
\* line, it was opened, and the client has no secret key.
C19_Witness ==
    \E p \in Procs :
        /\ pc[p] = "done"
        /\ result[p].kind = "client"
        /\ CredentialsPath \in opened[p]
        /\ FileValue(inp[p].fs, "AccessKeyId") = None
        /\ FileValue(inp[p].fs, "SecretAccessKey") = "secret-file"
        /\ result[p].config["AccessKeyId"] = None
        /\ result[p].config["SecretAccessKey"] = None

-----------------------------------------------------------------------------
(* parse_url and CloudType::from_str *)

UrlSchemes ==
    {"s3", "s3a", "az", "azure", "adl", "abfs", "abfss", "gs", "gcp", "gcs",
     "file", "http", "https", "S3", "HTTP", "ftp", "hdfs"}

UrlRests ==
    {<<"bucket", "/", "key">>,
     <<>>,
     <<"Users", "/", "Jane", " ", "Doe", "/", "data.csv">>,
     <<"/", "home", "/", "Jane", " ", "Doe", "/", "data.csv">>}

UrlPaths ==
    {<<"data.csv">>,
     <<"/", "home", "/", "Jane", " ", "Doe", "/", "data.csv">>,
     <<"my", " ", "dir", "/", "data.csv">>,
     <<"bucket", "/", "key">>,
     <<"s3">>,
     <<>>}

\* The strings given to parse_url: an explicit scheme and the rest, a plain
\* path, or a separator that no scheme precedes.
UrlInputs ==
    {<<scheme, Sep>> \o rest : scheme \in UrlSchemes, rest \in UrlRests}
        \cup UrlPaths
        \cup {<<"my", "/", "dir", Sep, "x">>}

\* The calls parse_url(input) and CloudType::from_str(input) on the drawn
\* string: the url as a string, the tag, and the error if there is one.
FromStr ==
    /\ ~tout.done
    /\ LET parsed == parse_url(tin.url)
           typed == from_str(tin.url)
       IN  tout' = [done |-> TRUE, ok |-> typed.tag # None,
                    options |-> DefaultOptions, err |-> typed.err,
                    tag |-> typed.tag,
                    url |-> IF parsed.ok THEN as_str(parsed) ELSE <<>>]
    /\ UNCHANGED <<callVars, cache, lock, permits, held, downloads, lastInsert, tin>>

InitUrl ==
    /\ InitShared
    /\ cache = <<>>
    /\ lastInsert = [b \in AllBuckets |-> None]
    /\ tin \in [url : UrlInputs, config : {<<>>}]
    /\ tout = NoOutput

NextUrl == FromStr

SpecUrl == InitUrl /\ [][NextUrl]_vars

\* The string starts with a scheme and the separator.
ExplicitScheme(input) ==
    /\ Len(input) >= 2
    /\ input[1] \notin {"/", " ", Sep}
    /\ input[2] = Sep

\* The tag the scheme table gives a scheme, None for a scheme not in it.
TagOfScheme(scheme) ==
    CASE scheme \in {"s3", "s3a"} -> "Aws"
      [] scheme \in {"az", "azure", "adl", "abfs", "abfss"} -> "Azure"
      [] scheme \in {"gs", "gcp", "gcs"} -> "Gcp"
      [] scheme = "file" -> "File"
      [] scheme \in {"http", "https"} -> "Http"
      [] OTHER -> None

\* C11 as stated: every string with an explicit scheme of the table is given
\* the scheme's tag, and every string with another explicit scheme fails
\* with an error and no tag.
C11_Original ==
    (tout.done /\ ExplicitScheme(tin.url)) =>
        LET tag == TagOfScheme(Lower(tin.url[1]))
        IN  IF tag # None
            THEN tout.tag = tag /\ tout.err = None
            ELSE tout.tag = None /\ tout.err # None

\* C11: a string with an explicit scheme that parses as a url is given the
\* tag of its scheme if the scheme is in the table, and fails with "unknown
\* url scheme" and no tag otherwise; a string that does not parse fails with
\* the parse error and no tag, whatever its scheme.
C11_SchemeClassification ==
    (tout.done /\ ExplicitScheme(tin.url)) =>
        LET tag == TagOfScheme(Lower(tin.url[1]))
        IN  IF tout.url = <<>>
            THEN /\ tout.tag = None
                 /\ tout.err \notin {None, "unknown url scheme"}
            ELSE IF tag # None
                 THEN tout.tag = tag /\ tout.err = None
                 ELSE tout.tag = None /\ tout.err = "unknown url scheme"

\* C11's case: a string whose scheme is in the table has not parsed and was
\* given no tag.
C11_Witness ==
    /\ tout.done
    /\ tin.url = <<"http", Sep>>
    /\ tout.tag = None
    /\ tout.err = "empty host"

Decode(str) == [i \in 1..Len(str) |-> IF str[i] = "%20" THEN " " ELSE str[i]]

CountOf(piece, str) == Cardinality({i \in 1..Len(str) : str[i] = piece})

\* C15: a string without the separator is taken as a path, a relative one
\* under the current directory and an absolute one as it is, and gives the
\* file url of that path with every space written %20; a string with the
\* separator is parsed as a url, its scheme kept, and the spaces of a parsed
\* url are written %20 as well.
C15_ParseUrl ==
    tout.done =>
        IF ~Contains(tin.url, Sep)
        THEN LET absolute == IF tin.url # <<>> /\ tin.url[1] = "/"
                             THEN tin.url
                             ELSE Cwd \o <<"/">> \o tin.url
             IN  /\ tout.url # <<>>
                 /\ ~Contains(tout.url, " ")
                 /\ Decode(tout.url) = <<"file", Sep>> \o absolute
        ELSE tout.url # <<>> =>
                 /\ tout.url[1] = Lower(tin.url[1])
                 /\ tout.url[2] = Sep
                 /\ ~Contains(tout.url, " ")
                 /\ CountOf("%20", tout.url) = CountOf(" ", tin.url)

\* C15's case: a relative path with a space has been resolved and encoded.
C15_Witness ==
    /\ tout.done
    /\ tin.url = <<"my", " ", "dir", "/", "data.csv">>
    /\ tout.url = <<"file", Sep>> \o
                  <<"/", "srv", "/", "my", "%20", "work", "/",
                    "my", "%20", "dir", "/", "data.csv">>

====
